---- MODULE Spec2Model ----
(***************************************************************************)
(* RSCP (Roller Shutter Control Panel Protocol) over a byte link.          *)
(*                                                                         *)
(* The module models src/rscpProtocol.c: the byte-stream receiver          *)
(* (rscpGetRxByteBlocking, rscpGetMsg), the frame transmitter              *)
(* (rscpSendMsg) and the slave dispatch (rscpHandle).  The transport, the  *)
(* CRC function and the device handlers are callbacks of the host; they    *)
(* are the environment of the model.                                       *)
(***************************************************************************)
EXTENDS Integers, Sequences, FiniteSets, TLC

VARIABLES
    pc,            \* "idle": no call active; "rx": inside the loop of rscpGetMsg;
                   \* "rxret": rscpGetMsg has returned into rscpHandle
    caller,        \* the public function that is running: "getmsg" or "handle"
    timeout_ticks, \* rscpGetMsg's parameter timeout_ticks
    ticks,         \* rscpGetRxByteBlocking's own copy of timeout_ticks
    bufferIndex,   \* rscpGetMsg's bufferIndex
    rscpRxStatus,  \* rscpGetMsg's rscpRxStatus
    frame,         \* struct RSCP_frame of the running call; data holds the bytes written
    rxResult,      \* <<code>>: what rscpGetMsg returned (<<>> while it runs)
    result,        \* <<code>>: what the public function returned (<<>> while it runs)
    rx,            \* transport: bytes still to be delivered by rscpGetRxByteCallback
    tail,          \* transport: after rx, <<>> = silent for ever, <<b>> = b for ever
    stalls,        \* transport: not-ready polls it may still answer while a byte is due
    sent,          \* the frames (command, data) the peer encoded into rx, in order
    polls,         \* rscpGetRxByteCallback invocations in this call, up to the first byte
    waits,         \* rscpRxWaitingCallback invocations in this call
    byteWaits,     \* rscpRxWaitingCallback invocations for the byte now awaited
    gotByte,       \* a byte has been delivered in this call
    rdPhase,       \* parity of the number of bytes the transport has delivered
    lastWr,        \* index of the last write to frame.data in this call (-1: none)
    calls,         \* public calls started so far
    txLog,         \* buffers handed to rscpSendSlotCallback in this call
    cbLog,         \* device callbacks invoked in this call, with their argument
    nTx,           \* rscpSendSlotCallback invocations over all calls
    nValid,        \* frames that passed rscpHandle's CRC check over all calls
    replyOut       \* the bytes rscpRequestData copied into its parameter reply

vars == <<pc, caller, timeout_ticks, ticks, bufferIndex, rscpRxStatus, frame,
          rxResult, result, rx, tail, stalls, sent, polls, waits, byteWaits,
          gotByte, rdPhase, lastWr, calls, txLog, cbLog, nTx, nValid, replyOut>>

---------------------------------------------------------------------------
(* Program constants (rscpProtocol.h).                                     *)

RSCP_MAX_TX_BUFFER_SIZE == 64
RSCP_PREAMBLE_BYTE == 170

RSCP_CMD_CPU_QUERY == 3
RSCP_CMD_SET_SHUTTER_ACTION == 4
RSCP_CMD_SET_SHUTTER_POSITION == 5
RSCP_CMD_GET_SHUTTER_POSITION == 6
RSCP_CMD_SET_SWITCH_RELAY == 7
RSCP_CMD_GET_SWITCH_RELAY == 8
RSCP_CMD_SET_BUZZER_ACTION == 9
RSCP_CMD_GET_SWITCH_BUTTON == 10

RSCP_DEF_PROTOCOL_VERSION == 1
RSCP_DEF_SWVERSION_VERSION == 1
RSCP_DEF_CRC_TYPE_MODBUS16 == 1
RSCP_DEF_CPU_TYPE_ATMEGA328P_8MHZ == 1

RSCP_ERR_OK == 0
RSCP_ERR_TIMEOUT == -1
RSCP_ERR_OVERFLOW == -2
RSCP_ERR_MALFORMED == -3
RSCP_ERR_NOT_SUPPORTED == -4
RSCP_ERR_TX_FAILED == -5
RSCP_ERR_REQUEST_FAILED == -6
RSCP_ERR_TASK_BUFFER_FULL == -7
RSCP_ERR_INVALID_ANSWER == -8

\* sizeof(frame->data), sizeof(frame->crc), sizeof(struct RSCP_frame)
SizeofData == 26
SizeofCrc == 2
SizeofFrame == 30

\* the README's "maximum data length is 208 bytes"
ReadmeMaxData == 208

\* sizeof of the packed reply records
SizeofReplyPosition == 2
SizeofReplyRelay == 1
SizeofReplyButton == 1

---------------------------------------------------------------------------
(* Bounds of the model.                                                    *)

MaxPayload == 27    \* longest payload the peer encodes
MaxPre == 2         \* most 0xAA bytes in front of a frame
MaxTicks == 1       \* largest tick budget a caller passes
MaxStalls == 2      \* not-ready polls of the transport while a byte is due
MaxCalls == 2       \* public calls in one behaviour
LongSpan == 3       \* long payloads are MaxPayload - LongSpan .. MaxPayload bytes
ShortPayload == 2   \* short payloads are 0 .. ShortPayload bytes
MaxTxPayload == 60  \* longest payload the master hands to rscpSendAction

---------------------------------------------------------------------------
(* Integer conversions of the C code.                                      *)

U8(x) == x % 256
\* a conversion to 16 bits that keeps the low byte only
U16Narrow(x) == x % 256
U16(x) == x % 65536

\* n bytes b
RECURSIVE Rep(_, _)
Rep(b, n) == IF n = 0 THEN <<>> ELSE <<b>> \o Rep(b, n - 1)

RECURSIVE Xor(_, _, _)
Xor(a, b, n) ==
    IF n = 0 THEN 0
    ELSE (((a % 2) + (b % 2)) % 2) + 2 * Xor(a \div 2, b \div 2, n - 1)

RECURSIVE Or(_, _, _)
Or(a, b, n) ==
    IF n = 0 THEN 0
    ELSE (IF (a % 2) + (b % 2) > 0 THEN 1 ELSE 0) + 2 * Or(a \div 2, b \div 2, n - 1)

---------------------------------------------------------------------------
(* rscpGetCrcCallback: the host's CRC, MODBUS CRC-16 (crcType MODBUS16):   *)
(* start 0xFFFF, reflected polynomial 0xA001, one byte at a time.          *)

CrcShift(c) == IF c % 2 = 1 THEN Xor(c \div 2, 40961, 16) ELSE c \div 2

RECURSIVE CrcBits(_, _)
CrcBits(c, n) == IF n = 0 THEN c ELSE CrcBits(CrcShift(c), n - 1)

\* the byte-wise form of the same CRC: tables of the 8 shifts of a byte and
\* of the exclusive or of two nibbles
CrcTable == [b \in 0..255 |-> CrcBits(b, 8)]
XorTable == [a \in 0..15 |-> [b \in 0..15 |-> Xor(a, b, 4)]]
Xor8(a, b) == XorTable[a \div 16][b \div 16] * 16 + XorTable[a % 16][b % 16]

CrcByte(c, b) ==
    LET t == CrcTable[Xor8(c % 256, b)]
    IN  (t \div 256) * 256 + Xor8(c \div 256, t % 256)

\* bytes i..n taken in order, the range halved so that long frames nest
\* no deeper than a few levels
RECURSIVE CrcFrom(_, _, _, _)
CrcFrom(c, bytes, i, n) ==
    IF i > n THEN c
    ELSE IF i = n THEN CrcByte(c, bytes[i])
    ELSE LET mid  == (i + n) \div 2
             left == CrcFrom(c, bytes, i, mid)
         IN  IF left >= 0 THEN CrcFrom(left, bytes, mid + 1, n) ELSE 0

\* the CRC of the first len bytes of bytes
rscpGetCrcCallback(bytes, len) == CrcFrom(65535, bytes, 1, len)

---------------------------------------------------------------------------
(* rscpSendMsg: the buffer handed to rscpSendSlotCallback.                 *)

\* txBuffer after "Fill txBuffer" and the memcpy of the payload
TxHead(command, data) ==
    <<RSCP_PREAMBLE_BYTE, U8(2 + Len(data)), command>> \o data

\* a buffer whose CRC covers the preamble too
TxBufferCrcFromPreamble(command, data) ==
    LET head == TxHead(command, data)
        crc  == rscpGetCrcCallback(head, Len(head))
    IN  head \o <<(crc \div 256) % 256, crc % 256>>

\* txBuffer as handed to rscpSendSlotCallback: the CRC covers &txBuffer[1],
\* txBufferIndex - 1 bytes, and is appended high byte first
TxBuffer(command, data) ==
    LET head == TxHead(command, data)
        crc  == rscpGetCrcCallback(Tail(head), Len(head) - 1)
    IN  head \o <<(crc \div 256) % 256, crc % 256>>

\* a send that reports success whatever rscpSendSlotCallback returned
SendMsgResultOk(slotOk) == RSCP_ERR_OK
\* rscpSendMsg's return value, from what rscpSendSlotCallback returned
SendMsgResult(slotOk) == IF slotOk THEN RSCP_ERR_OK ELSE RSCP_ERR_TX_FAILED

---------------------------------------------------------------------------
(* rscpGetMsg: one pass of the switch on rscpRxStatus for readByte.        *)

\* struct RSCP_frame of a call that has stored nothing yet
FreshFrame == [length |-> 0, command |-> 0, data |-> <<>>, crc |-> 0]

\* (uint32_t)(frame->length - sizeof(frame->crc)): the subtraction is done in
\* size_t, so a length below 2 wraps (shown for the 16-bit size_t of the AVR)
DataEnd(length) ==
    IF length >= SizeofCrc THEN length - SizeofCrc
    ELSE 65536 + length - SizeofCrc

\* a test that sends a frame without data to the data state, and one that
\* sends a frame with one data byte to the CRC states
AfterCommandFrom2(length) == IF length >= 2 THEN 2 ELSE 3
AfterCommandAbove3(length) == IF length > 3 THEN 2 ELSE 3
\* case 1: where the command byte leads
AfterCommand(length) == IF length > 2 THEN 2 ELSE 3

\* a guard that lets one more pass through
LoopGuardOff(index) == index <= SizeofData
\* while (bufferIndex < sizeof(frame->data))
LoopGuard(index) == index < SizeofData

\* a test that takes no byte for the preamble
IsPreambleNever(readByte) == FALSE
\* case 0: readByte != RSCP_PREAMBLE_BYTE
IsPreamble(readByte) == readByte = RSCP_PREAMBLE_BYTE

\* the switch: the new frame, status and index, whether it returned
\* RSCP_ERR_OK, and the index of frame->data it wrote (-1: none)
RxSwitch(f, status, index, readByte) ==
    CASE status = 0 ->
           IF ~IsPreamble(readByte)
           THEN [frame |-> [f EXCEPT !.length = readByte], status |-> 1,
                 index |-> index, ok |-> FALSE, wrote |-> -1]
           ELSE [frame |-> f, status |-> 0, index |-> index, ok |-> FALSE,
                 wrote |-> -1]
      [] status = 1 ->
           [frame |-> [f EXCEPT !.command = readByte],
            status |-> AfterCommand(f.length),
            index |-> index, ok |-> FALSE, wrote |-> -1]
      [] status = 2 ->
           [frame |-> [f EXCEPT !.data = Append(f.data, readByte)],
            status |-> IF index + 1 >= DataEnd(f.length) THEN 3 ELSE 2,
            index |-> index + 1, ok |-> FALSE, wrote |-> index]
      [] status = 3 ->
           [frame |-> [f EXCEPT !.crc = U16(readByte * 256)], status |-> 4,
            index |-> index, ok |-> FALSE, wrote |-> -1]
      [] status = 4 ->
           [frame |-> [f EXCEPT !.crc = Or(f.crc, readByte, 16)], status |-> 4,
            index |-> index, ok |-> TRUE, wrote |-> -1]

\* rscpGetMsg on a transport that delivers bytes without delay and nothing
\* after them: the loop runs until a return; when the bytes run out the
\* countdown of rscpGetRxByteBlocking ends the call
RECURSIVE RxRun(_, _, _, _)
RxRun(f, status, index, bytes) ==
    IF bytes = <<>> THEN [code |-> RSCP_ERR_TIMEOUT, frame |-> f]
    ELSE LET s == RxSwitch(f, status, index, Head(bytes))
         IN  IF s.ok THEN [code |-> RSCP_ERR_OK, frame |-> s.frame]
             ELSE IF ~LoopGuard(s.index)
             THEN [code |-> RSCP_ERR_OVERFLOW, frame |-> s.frame]
             ELSE RxRun(s.frame, s.status, s.index, Tail(bytes))

rscpGetMsg(bytes) == RxRun(FreshFrame, 0, 0, bytes)

---------------------------------------------------------------------------
(* The older rscpGetMsg kept in src/unnamed/part_000: the command byte     *)
(* always leads to the data state.                                         *)

RxSwitchDraft(f, status, index, readByte) ==
    CASE status = 0 ->
           IF readByte # RSCP_PREAMBLE_BYTE
           THEN [frame |-> [f EXCEPT !.length = readByte], status |-> 1,
                 index |-> index, ok |-> FALSE, wrote |-> -1]
           ELSE [frame |-> f, status |-> 0, index |-> index, ok |-> FALSE,
                 wrote |-> -1]
      [] status = 1 ->
           [frame |-> [f EXCEPT !.command = readByte], status |-> 2,
            index |-> index, ok |-> FALSE, wrote |-> -1]
      [] status = 2 ->
           [frame |-> [f EXCEPT !.data = Append(f.data, readByte)],
            status |-> IF index + 1 >= DataEnd(f.length) THEN 3 ELSE 2,
            index |-> index + 1, ok |-> FALSE, wrote |-> index]
      [] status = 3 ->
           [frame |-> [f EXCEPT !.crc = U16(readByte * 256)], status |-> 4,
            index |-> index, ok |-> FALSE, wrote |-> -1]
      [] status = 4 ->
           [frame |-> [f EXCEPT !.crc = Or(f.crc, readByte, 16)], status |-> 4,
            index |-> index, ok |-> TRUE, wrote |-> -1]

\* the older rscpGetMsg on bytes delivered without delay, nothing after them;
\* rest is what it has not read when it returns
RECURSIVE RxRunDraft(_, _, _, _)
RxRunDraft(f, status, index, bytes) ==
    IF bytes = <<>> THEN [code |-> RSCP_ERR_TIMEOUT, frame |-> f, rest |-> <<>>]
    ELSE LET s == RxSwitchDraft(f, status, index, Head(bytes))
         IN  IF s.ok
             THEN [code |-> RSCP_ERR_OK, frame |-> s.frame, rest |-> Tail(bytes)]
             ELSE IF ~(s.index < SizeofData)
             THEN [code |-> RSCP_ERR_OVERFLOW, frame |-> s.frame, rest |-> Tail(bytes)]
             ELSE RxRunDraft(s.frame, s.status, s.index, Tail(bytes))

rscpGetMsgDraft(bytes) == RxRunDraft(FreshFrame, 0, 0, bytes)

---------------------------------------------------------------------------
(* The slave: rscpHandle and the reply functions it calls.  slotOk is what  *)
(* rscpSendSlotCallback answers, cbRet what a set callback returns, fill    *)
(* the byte a get callback writes into every byte of its reply record.      *)

\* rscpSendMsg: its return value and the buffer it hands to the transport
rscpSendMsg(command, data, slotOk) ==
    [ret |-> SendMsgResult(slotOk),
     tx  |-> <<[buf |-> TxBuffer(command, data), ok |-> slotOk]>>]

\* struct RSCP_Reply_cpuquery as rscpGetCPUQuery fills it (packed, the 16-bit
\* fields low byte first)
CpuQueryReply ==
    <<0, 0, RSCP_DEF_CRC_TYPE_MODBUS16, RSCP_DEF_PROTOCOL_VERSION,
      RSCP_DEF_CPU_TYPE_ATMEGA328P_8MHZ, RSCP_DEF_SWVERSION_VERSION,
      SizeofFrame % 256, SizeofFrame \div 256>>

rscpGetCPUQuery(slotOk) ==
    [send |-> rscpSendMsg(RSCP_CMD_CPU_QUERY, CpuQueryReply, slotOk), cb |-> <<>>]

rscpGetShutterPosition(fill, slotOk) ==
    LET reply == Rep(fill, SizeofReplyPosition)
    IN  [send |-> rscpSendMsg(RSCP_CMD_GET_SHUTTER_POSITION, reply, slotOk),
         cb   |-> <<[cb |-> "rscpGetShutterPositionCallback", out |-> reply]>>]

rscpGetSwitchRelay(fill, slotOk) ==
    LET reply == Rep(fill, SizeofReplyRelay)
    IN  [send |-> rscpSendMsg(RSCP_CMD_GET_SWITCH_RELAY, reply, slotOk),
         cb   |-> <<[cb |-> "rscpGetSwitchRelayCallback", out |-> reply]>>]

rscpGetSwitchButton(fill, slotOk) ==
    LET reply == Rep(fill, SizeofReplyButton)
    IN  [send |-> rscpSendMsg(RSCP_CMD_GET_SWITCH_BUTTON, reply, slotOk),
         cb   |-> <<[cb |-> "rscpGetSwitchButtonCallback", out |-> reply]>>]

\* an answer that drops the command, and one that drops the outcome code
rscpSendFailNoCommand(command, errorCode, slotOk) ==
    rscpSendMsg(0, <<U8(errorCode)>>, slotOk)
rscpSendFailOk(command, errorCode, slotOk) ==
    rscpSendMsg(command, <<U8(RSCP_ERR_OK)>>, slotOk)
\* rscpSendFail(command, errorCode): errorCode is a uint8_t parameter
rscpSendFail(command, errorCode, slotOk) ==
    rscpSendMsg(command, <<U8(errorCode)>>, slotOk)

\* a set callback is handed &frame.data[0] and returns cbRet
SetCallback(name, f, cbRet) == <<[cb |-> name, arg |-> f.data, ret |-> cbRet]>>

\* the switch of rscpHandle up to its breaks: the outcome code and the device
\* callback invoked (the four get cases return inside the switch)
SetCases(f, cbRet) ==
    CASE f.command = RSCP_CMD_SET_SHUTTER_ACTION ->
           [err |-> cbRet, cb |-> SetCallback("rscpSetShutterActionCallback", f, cbRet)]
      [] f.command = RSCP_CMD_SET_SHUTTER_POSITION ->
           [err |-> cbRet, cb |-> SetCallback("rscpSetShutterPositionCallback", f, cbRet)]
      [] f.command = RSCP_CMD_SET_SWITCH_RELAY ->
           [err |-> cbRet, cb |-> SetCallback("rscpSetSwitchRelayCallback", f, cbRet)]
      [] f.command = RSCP_CMD_SET_BUZZER_ACTION ->
           [err |-> cbRet, cb |-> SetCallback("rscpSetBuzzerActionCallback", f, cbRet)]
      [] OTHER ->
           [err |-> RSCP_ERR_NOT_SUPPORTED, cb |-> <<>>]

\* the switch and the final rscpSendFail(frame.command, err)
AckOrFail(f, slotOk, cbRet) ==
    LET c == SetCases(f, cbRet)
    IN  [send |-> rscpSendFail(f.command, c.err, slotOk), cb |-> c.cb]

\* the switch of the earlier draft: no case for RSCP_CMD_GET_SWITCH_BUTTON
DispatchDraft(f, slotOk, cbRet, fill) ==
    CASE f.command = RSCP_CMD_CPU_QUERY -> rscpGetCPUQuery(slotOk)
      [] f.command = RSCP_CMD_GET_SHUTTER_POSITION -> rscpGetShutterPosition(fill, slotOk)
      [] f.command = RSCP_CMD_GET_SWITCH_RELAY -> rscpGetSwitchRelay(fill, slotOk)
      [] OTHER -> AckOrFail(f, slotOk, cbRet)

\* a switch whose default case returns without answering
DispatchSilentDefault(f, slotOk, cbRet, fill) ==
    CASE f.command = RSCP_CMD_CPU_QUERY -> rscpGetCPUQuery(slotOk)
      [] f.command = RSCP_CMD_GET_SHUTTER_POSITION -> rscpGetShutterPosition(fill, slotOk)
      [] f.command = RSCP_CMD_GET_SWITCH_RELAY -> rscpGetSwitchRelay(fill, slotOk)
      [] f.command = RSCP_CMD_GET_SWITCH_BUTTON -> rscpGetSwitchButton(fill, slotOk)
      [] f.command \in {RSCP_CMD_SET_SHUTTER_ACTION, RSCP_CMD_SET_SHUTTER_POSITION,
                        RSCP_CMD_SET_SWITCH_RELAY, RSCP_CMD_SET_BUZZER_ACTION} ->
           AckOrFail(f, slotOk, cbRet)
      [] OTHER -> [send |-> [ret |-> RSCP_ERR_NOT_SUPPORTED, tx |-> <<>>], cb |-> <<>>]

\* switch (frame.command) of rscpHandle
Dispatch(f, slotOk, cbRet, fill) ==
    CASE f.command = RSCP_CMD_CPU_QUERY -> rscpGetCPUQuery(slotOk)
      [] f.command = RSCP_CMD_GET_SHUTTER_POSITION -> rscpGetShutterPosition(fill, slotOk)
      [] f.command = RSCP_CMD_GET_SWITCH_RELAY -> rscpGetSwitchRelay(fill, slotOk)
      [] f.command = RSCP_CMD_GET_SWITCH_BUTTON -> rscpGetSwitchButton(fill, slotOk)
      [] OTHER -> AckOrFail(f, slotOk, cbRet)

\* rscpGetCrcCallback((uint8_t *)&frame, frame.length) != frame.crc: the frame
\* lies in memory as length, command, data
FrameBytes(f) == <<f.length, f.command>> \o f.data
\* a check that accepts every frame
CrcValidAlways(f) == TRUE
CrcValid(f) == rscpGetCrcCallback(FrameBytes(f), f.length) = f.crc

\* rscpHandle after rscpGetMsg has returned rxCode
rscpHandle(f, rxCode, slotOk, cbRet, fill) ==
    IF rxCode # RSCP_ERR_OK
    THEN [ret |-> rxCode, tx |-> <<>>, cb |-> <<>>, valid |-> FALSE]
    ELSE IF ~CrcValid(f)
    THEN [ret |-> RSCP_ERR_MALFORMED, tx |-> <<>>, cb |-> <<>>, valid |-> FALSE]
    ELSE LET d == Dispatch(f, slotOk, cbRet, fill)
         IN  [ret |-> d.send.ret, tx |-> d.send.tx, cb |-> d.cb, valid |-> TRUE]

---------------------------------------------------------------------------
(* rscpGetRxByteBlocking.                                                  *)

\* a countdown that ends one tick early, and one that ends one tick late
TimedOutEarly(t) == t <= 1
TimedOutLate(t) == t < 0
\* if (timeout_ticks-- == 0) return -1;
TimedOut(t) == t = 0

---------------------------------------------------------------------------
(* The transport: rscpGetRxByteCallback.                                   *)

ByteDue == rx # <<>> \/ tail # <<>>
NextByte == IF rx # <<>> THEN Head(rx) ELSE Head(tail)

---------------------------------------------------------------------------
(* Streams the peer puts on the link.                                      *)

\* payloads: 1, 2, 3, ... or 0xAA, 0xAA, ...
Payload(kind, n) ==
    [i \in 1..n |-> IF kind = 0 THEN U8(i) ELSE RSCP_PREAMBLE_BYTE]

\* a frame encoded by rscpSendMsg, with pre bytes of 0xAA in front of its
\* length byte; with crcOk false the CRC low byte arrives changed
Wire(fr) ==
    LET good == Tail(TxBuffer(fr.command, fr.data))
        n    == Len(good)
    IN  Rep(RSCP_PREAMBLE_BYTE, fr.pre)
        \o (IF fr.crcOk THEN good ELSE [good EXCEPT ![n] = U8(good[n] + 1)])

RxFrames ==
    {[command |-> c, data |-> Payload(p, n), pre |-> N, crcOk |-> TRUE] :
        c \in {RSCP_CMD_CPU_QUERY, RSCP_PREAMBLE_BYTE}, p \in 0..1,
        n \in 0..ShortPayload, N \in 0..MaxPre}
    \cup {[command |-> RSCP_CMD_SET_SHUTTER_ACTION, data |-> Payload(0, n), pre |-> 1,
           crcOk |-> TRUE] :
        n \in ((MaxPayload - LongSpan)..MaxPayload) \cup {ReadmeMaxData}}

\* byte runs no encoder produces: nothing, a frame cut short, and frames with
\* a length byte of 0
\* and of 1 followed by the CRC of that many bytes
RawStreams ==
    {<<>>,
     <<3, RSCP_CMD_SET_SWITCH_RELAY>>,
     <<0, RSCP_CMD_SET_BUZZER_ACTION, 255, 255>>,
     <<1, RSCP_CMD_SET_BUZZER_ACTION,
       rscpGetCrcCallback(<<1>>, 1) \div 256, rscpGetCrcCallback(<<1>>, 1) % 256>>}

Tails == {<<>>, <<RSCP_PREAMBLE_BYTE>>}

---------------------------------------------------------------------------
(* Calls and steps.                                                        *)

Idle ==
    /\ pc = "idle"
    /\ caller = "none"
    /\ timeout_ticks = 0
    /\ ticks = 0
    /\ bufferIndex = 0
    /\ rscpRxStatus = 0
    /\ frame = FreshFrame
    /\ rxResult = <<>>
    /\ result = <<>>
    /\ stalls = MaxStalls
    /\ polls = 0
    /\ waits = 0
    /\ byteWaits = 0
    /\ gotByte = FALSE
    /\ rdPhase = 0
    /\ lastWr = -1
    /\ calls = 0
    /\ txLog = <<>>
    /\ cbLog = <<>>
    /\ nTx = 0
    /\ nValid = 0
    /\ replyOut = <<>>

InitRx ==
    /\ Idle
    /\ tail \in Tails
    /\ \/ \E fr \in RxFrames : rx = Wire(fr) /\ sent = <<fr>>
       \/ rx \in RawStreams /\ sent = <<>>

\* entry of a public function with timeout_ticks = k: rscpGetMsg's locals; the
\* transport may answer not-ready budget times while a byte is due
EnterCall(who, k, budget) ==
    /\ pc = "idle"
    /\ calls < MaxCalls
    /\ caller' = who
    /\ timeout_ticks' = k
    /\ ticks' = k
    /\ bufferIndex' = 0
    /\ rscpRxStatus' = 0
    /\ frame' = FreshFrame
    /\ rxResult' = <<>>
    /\ stalls' = budget
    /\ polls' = 0
    /\ waits' = 0
    /\ byteWaits' = 0
    /\ gotByte' = FALSE
    /\ lastWr' = -1
    /\ calls' = calls + 1
    /\ replyOut' = <<>>

\* a call that goes straight into rscpGetMsg
Enter(who, k, budget) ==
    /\ EnterCall(who, k, budget)
    /\ pc' = "rx"
    /\ result' = <<>>
    /\ txLog' = <<>>
    /\ cbLog' = <<>>

\* the host calls rscpGetMsg on what the link holds
rscpGetMsgCall ==
    \E k \in 0..MaxTicks :
        Enter("getmsg", k, MaxStalls) /\ UNCHANGED <<rx, tail, sent, rdPhase, nTx, nValid>>

\* return of rscpGetMsg: to the host ("getmsg") or into rscpHandle
RxReturn(code) ==
    /\ rxResult' = <<code>>
    /\ IF caller = "getmsg"
       THEN pc' = "idle" /\ result' = <<code>>
       ELSE pc' = "rxret" /\ result' = result

\* rscpGetRxByteCallback has no byte: rscpGetRxByteBlocking counts a tick down
\* and waits, or gives up and rscpGetMsg returns RSCP_ERR_TIMEOUT
PollNotReady ==
    /\ pc = "rx"
    /\ ~ByteDue \/ stalls > 0
    /\ stalls' = IF ByteDue THEN stalls - 1 ELSE stalls
    /\ polls' = IF gotByte THEN polls ELSE polls + 1
    /\ IF TimedOut(ticks)
       THEN /\ RxReturn(RSCP_ERR_TIMEOUT)
            /\ UNCHANGED <<ticks, waits, byteWaits>>
       ELSE /\ ticks' = ticks - 1
            /\ waits' = waits + 1
            /\ byteWaits' = byteWaits + 1
            /\ UNCHANGED <<pc, rxResult, result>>
    /\ UNCHANGED <<caller, timeout_ticks, bufferIndex, rscpRxStatus, frame, rx,
                   tail, sent, gotByte, rdPhase, lastWr, calls, txLog, cbLog, nTx,
                   nValid, replyOut>>

\* rscpGetRxByteCallback delivers a byte: the switch runs once, then the loop
\* condition; the next rscpGetRxByteBlocking starts from timeout_ticks again
PollReady ==
    /\ pc = "rx"
    /\ ByteDue
    /\ LET s == RxSwitch(frame, rscpRxStatus, bufferIndex, NextByte)
       IN  /\ frame' = s.frame
           /\ rscpRxStatus' = s.status
           /\ bufferIndex' = s.index
           /\ lastWr' = IF s.wrote >= 0 THEN s.wrote ELSE lastWr
           /\ IF s.ok THEN RxReturn(RSCP_ERR_OK)
              ELSE IF ~LoopGuard(s.index) THEN RxReturn(RSCP_ERR_OVERFLOW)
              ELSE UNCHANGED <<pc, rxResult, result>>
    /\ rx' = IF rx # <<>> THEN Tail(rx) ELSE rx
    /\ polls' = IF gotByte THEN polls ELSE polls + 1
    /\ gotByte' = TRUE
    /\ rdPhase' = 1 - rdPhase
    /\ ticks' = timeout_ticks
    /\ byteWaits' = 0
    /\ UNCHANGED <<caller, timeout_ticks, tail, stalls, sent, waits, calls,
                   txLog, cbLog, nTx, nValid, replyOut>>

NextRx == rscpGetMsgCall \/ PollNotReady \/ PollReady

SpecRx == InitRx /\ [][NextRx]_vars

\* two frames sent back to back on a link that delivers without stalling and
\* is silent after them
FirstFrames ==
    {[command |-> c, data |-> Payload(p, n), pre |-> 1, crcOk |-> TRUE] :
        c \in {RSCP_CMD_CPU_QUERY, RSCP_PREAMBLE_BYTE}, p \in 0..1,
        n \in 0..ShortPayload}
    \cup {[command |-> RSCP_CMD_SET_SHUTTER_ACTION, data |-> Payload(0, n), pre |-> 1,
           crcOk |-> TRUE] :
        n \in (SizeofData - 1)..SizeofData}
SecondFrames ==
    {[command |-> RSCP_CMD_SET_SHUTTER_POSITION, data |-> Payload(0, n), pre |-> N,
      crcOk |-> TRUE] :
        n \in 0..ShortPayload, N \in 1..MaxPre}

InitPairs ==
    /\ Idle
    /\ tail = <<>>
    /\ \E a \in FirstFrames, b \in SecondFrames :
          rx = Wire(a) \o Wire(b) /\ sent = <<a, b>>

rscpGetMsgPromptCall ==
    \E k \in 0..MaxTicks :
        Enter("getmsg", k, 0) /\ UNCHANGED <<rx, tail, sent, rdPhase, nTx, nValid>>

NextPairs == rscpGetMsgPromptCall \/ PollNotReady \/ PollReady

SpecPairs == InitPairs /\ [][NextPairs]_vars

---------------------------------------------------------------------------
(* The slave's calls: rscpHandle, invoked again and again by the host.     *)

Catalog ==
    {RSCP_CMD_CPU_QUERY, RSCP_CMD_SET_SHUTTER_ACTION, RSCP_CMD_SET_SHUTTER_POSITION,
     RSCP_CMD_GET_SHUTTER_POSITION, RSCP_CMD_SET_SWITCH_RELAY, RSCP_CMD_GET_SWITCH_RELAY,
     RSCP_CMD_SET_BUZZER_ACTION, RSCP_CMD_GET_SWITCH_BUTTON}
GetCommands ==
    {RSCP_CMD_CPU_QUERY, RSCP_CMD_GET_SHUTTER_POSITION, RSCP_CMD_GET_SWITCH_RELAY,
     RSCP_CMD_GET_SWITCH_BUTTON}
SetCommands == Catalog \ GetCommands

\* command bytes outside the catalog: RSCP_CMD_FAIL, 11, 0xAA
UnknownCommands == {1, 11, RSCP_PREAMBLE_BYTE}

\* requests of the master: every command with a short payload and a good or a
\* damaged CRC, and one frame too long for the receiver
Requests ==
    {[command |-> c, data |-> Payload(0, n), pre |-> 1, crcOk |-> ok] :
        c \in Catalog \cup UnknownCommands, n \in 0..ShortPayload, ok \in BOOLEAN}
    \cup {[command |-> RSCP_CMD_SET_BUZZER_ACTION, data |-> Payload(0, MaxPayload),
           pre |-> 1, crcOk |-> TRUE]}

\* the bytes of each request on the link
RequestWire == [req \in Requests |-> Wire(req)]

\* what the device callbacks answer
OutcomeCodes == {RSCP_ERR_OK, RSCP_ERR_TASK_BUFFER_FULL}
FillBytes == {1, 2}

\* one bit of a byte inverted
FlipBit(byte, bit) ==
    IF (byte \div (2 ^ bit)) % 2 = 1 THEN byte - 2 ^ bit ELSE byte + 2 ^ bit
FlipAt(bytes, pos, bit) == [bytes EXCEPT ![pos] = FlipBit(@, bit)]

\* a valid frame of n data bytes with one bit inverted in its length byte
\* (position 2 of the buffer), a data byte or a CRC byte (positions 4..n+5)
FlipPositions(n) == {2} \cup (4..(n + 5))
Flipped(command, sizes) ==
    {[command |-> command, data |-> Payload(0, n), origin |-> "flipped",
      pos |-> pos, bit |-> bit] :
        n \in sizes, pos \in 2..(SizeofData + 5), bit \in 0..7}
FlippedFrames(command, sizes) ==
    {fl \in Flipped(command, sizes) : fl.pos \in FlipPositions(Len(fl.data))}
FlippedWire(fl) == FlipAt(TxBuffer(fl.command, fl.data), fl.pos, fl.bit)

\* requests with an inverted bit: short ones with the bit anywhere, and the
\* two longest with the bit in the length byte, the first or last data byte
\* or a CRC byte
EdgePositions(n) == {2, 4, n + 3, n + 4, n + 5}
SlaveFlipped ==
    FlippedFrames(RSCP_CMD_SET_SWITCH_RELAY, 0..ShortPayload)
    \cup {fl \in Flipped(RSCP_CMD_SET_SWITCH_RELAY, {SizeofData - 1, SizeofData}) :
            fl.pos \in EdgePositions(Len(fl.data))}
SlaveFlippedWire == [fl \in SlaveFlipped |-> FlippedWire(fl)]

InitSlave ==
    /\ Idle
    /\ tail = <<>>
    /\ rx = <<>>
    /\ sent = <<>>

\* the host calls rscpHandle while the master sends a request, sends bytes
\* that are no frame, or sends nothing; the link delivers what it holds
\* without stalling and is silent after that
rscpHandleCall ==
    \E k \in 0..MaxTicks :
        /\ Enter("handle", k, 0)
        /\ \/ \E req \in Requests : rx' = rx \o RequestWire[req] /\ sent' = <<req>>
           \/ \E raw \in RawStreams : rx' = rx \o raw /\ sent' = <<>>
        /\ UNCHANGED <<tail, rdPhase, nTx, nValid>>

\* rscpGetMsg has returned into rscpHandle: CRC check, dispatch, reply
rscpHandleReturn ==
    /\ pc = "rxret"
    /\ caller = "handle"
    /\ \E slotOk \in BOOLEAN, cbRet \in OutcomeCodes, fill \in FillBytes :
          LET h == rscpHandle(frame, rxResult[1], slotOk, cbRet, fill)
          IN  /\ result' = <<h.ret>>
              /\ txLog' = h.tx
              /\ cbLog' = h.cb
              /\ nTx' = nTx + Len(h.tx)
              /\ nValid' = nValid + (IF h.valid THEN 1 ELSE 0)
    /\ pc' = "idle"
    /\ UNCHANGED <<caller, timeout_ticks, ticks, bufferIndex, rscpRxStatus, frame,
                   rxResult, rx, tail, stalls, sent, polls, waits, byteWaits,
                   gotByte, rdPhase, lastWr, calls, replyOut>>

NextSlave == rscpHandleCall \/ PollNotReady \/ PollReady \/ rscpHandleReturn

SpecSlave == InitSlave /\ [][NextSlave]_vars

\* the slave on a link that damages frames: the host calls rscpHandle while
\* the master sends, on an empty link, a request that arrives with one bit
\* inverted
rscpHandleDamagedCall ==
    \E k \in 0..MaxTicks, fl \in SlaveFlipped :
        /\ rx = <<>>
        /\ Enter("handle", k, 0)
        /\ rx' = SlaveFlippedWire[fl]
        /\ sent' = <<fl>>
        /\ UNCHANGED <<tail, rdPhase, nTx, nValid>>

NextDamaged ==
    rscpHandleDamagedCall \/ PollNotReady \/ PollReady \/ rscpHandleReturn

SpecDamaged == InitSlave /\ [][NextDamaged]_vars

---------------------------------------------------------------------------
(* The master: rscpRequestData and rscpSendAction.  Each call sends a       *)
(* request with rscpSendMsg, asks the transport for the reply               *)
(* (rscpRequestSlotCallback), receives it with rscpGetMsg and checks it.    *)

\* a check that looks at the command before the CRC
MasterCheckCommandFirst(f, command) ==
    IF f.command # command THEN RSCP_ERR_INVALID_ANSWER
    ELSE IF ~CrcValid(f) THEN RSCP_ERR_MALFORMED
    ELSE RSCP_ERR_OK
\* the checks of both functions on a received frame: CRC, then command
MasterCheck(f, command) ==
    IF ~CrcValid(f) THEN RSCP_ERR_MALFORMED
    ELSE IF f.command # command THEN RSCP_ERR_INVALID_ANSWER
    ELSE RSCP_ERR_OK

\* frame.data[i] (i from 0): a byte the receive stored, or whatever the
\* uninitialised frame on the stack held
DataAt(f, i, junk) == IF i < Len(f.data) THEN f.data[i + 1] ELSE junk

\* a copy that starts at frame.data[1]
CopyReplyShifted(f, replyLength, junk) ==
    [i \in 1..replyLength |-> DataAt(f, i, junk)]
\* for (i = 0; i < replyLength; i++) reply[i] = frame.data[i];
CopyReply(f, replyLength, junk) ==
    [i \in 1..replyLength |-> DataAt(f, i - 1, junk)]

\* (RSCP_ErrorType)frame.data[0]: RSCP_ErrorType has negative enumerators, so
\* it has the width of int (no short enums), and the byte 0..255 keeps its
\* value
ErrorTypeOfByte(b) == b

\* rxBufferMaxLength: 1 + sizeof(length) + sizeof(command) + replyLength +
\* sizeof(crc)
RxBufferMaxLength(replyLength) == 1 + 1 + 1 + replyLength + SizeofCrc

\* rscpSendMsg copies dataLength bytes past the end of txBuffer
TxOverflows(data) == 3 + Len(data) + SizeofCrc > RSCP_MAX_TX_BUFFER_SIZE

\* a buffer whose bytes past txBuffer[63] were overwritten after the write
Clobbered(buf) ==
    [i \in 1..Len(buf) |-> IF i > RSCP_MAX_TX_BUFFER_SIZE THEN 0 ELSE buf[i]]

\* the slave at the other end of a link that loses nothing: rscpHandle on the
\* bytes of the request
SlaveAnswer(request, slotOk, cbRet, fill) ==
    LET g == rscpGetMsg(request)
        h == rscpHandle(g.frame, g.code, slotOk, cbRet, fill)
    IN  [valid |-> h.valid,
         err   |-> SetCases(g.frame, cbRet).err,
         sends |-> h.tx # <<>>,
         link  |-> IF h.tx # <<>> /\ h.tx[1].ok THEN h.tx[1].buf ELSE <<>>]

\* replies no slave of this code sends: another command or a damaged CRC
OtherCommand(command) ==
    IF command = RSCP_CMD_SET_SHUTTER_ACTION THEN RSCP_CMD_SET_SHUTTER_POSITION
    ELSE RSCP_CMD_SET_SHUTTER_ACTION
ForgedReplies(command) ==
    {[command |-> c, data |-> d, pre |-> 1, crcOk |-> ok] :
        c \in {command, OtherCommand(command)},
        d \in {<<>>, <<256 + RSCP_ERR_INVALID_ANSWER>>, <<1, 2>>},
        ok \in BOOLEAN}

\* a request with no data byte
RequestDataNoPayload == <<>>
\* uint8_t data [] = { 0x00 }: what rscpRequestData hands to rscpSendMsg
RequestDataPayload == <<0>>

\* what the host asks of the master: rscpSendAction(command, data, ..) and
\* rscpRequestData(command, reply, replyLength, ..), which sends the data {0x00}
ActionInputs ==
    {[who |-> "action", command |-> c, data |-> <<2>>, replyLength |-> 1] :
        c \in {RSCP_CMD_SET_SWITCH_RELAY, 11}}
    \cup {[who |-> "action", command |-> RSCP_CMD_SET_BUZZER_ACTION,
           data |-> Payload(0, n), replyLength |-> 1] :
            n \in (MaxTxPayload - 1)..MaxTxPayload}
QueryInputs ==
    {[who |-> "reqdata", command |-> q[1], data |-> RequestDataPayload,
      replyLength |-> q[2]] :
        q \in {<<RSCP_CMD_CPU_QUERY, 7>>, <<RSCP_CMD_CPU_QUERY, 8>>,
               <<RSCP_CMD_GET_SWITCH_RELAY, 1>>, <<RSCP_CMD_GET_SHUTTER_POSITION, 3>>}}
MasterInputs == ActionInputs \cup QueryInputs

\* what the link holds for the master after its request: the answer of the
\* slave (with the outcome code err the slave produced), a forged reply, or a
\* valid reply with bit bit of the byte at pos inverted
Links(command, request, flips) ==
    {[origin |-> "slave", bytes |-> a.link, valid |-> a.valid, err |-> a.err,
      pos |-> 0, bit |-> 0, size |-> 0] :
        a \in {SlaveAnswer(request, slotOk, cbRet, fill) :
                 slotOk \in BOOLEAN, cbRet \in OutcomeCodes, fill \in FillBytes}}
    \cup {[origin |-> "forged", bytes |-> Wire(fr), valid |-> fr.crcOk, err |-> 0,
           pos |-> 0, bit |-> 0, size |-> Len(fr.data)] :
            fr \in ForgedReplies(command)}
    \cup {[origin |-> "flipped", bytes |-> FlippedWire(fl), valid |-> FALSE, err |-> 0,
           pos |-> fl.pos, bit |-> fl.bit, size |-> Len(fl.data)] :
            fl \in FlippedFrames(command, flips)}

\* the links of each input; replies with an inverted bit come to the two
\* calls for the switch relay
MasterLinks ==
    [m \in MasterInputs |->
        Links(m.command, TxBuffer(m.command, m.data),
              IF m.command \in {RSCP_CMD_SET_SWITCH_RELAY, RSCP_CMD_GET_SWITCH_RELAY}
              THEN 0..ShortPayload ELSE {})]

\* rscpSendMsg of each input, for both answers of rscpSendSlotCallback
MasterSends ==
    [m \in MasterInputs |-> [slotOk \in BOOLEAN |-> rscpSendMsg(m.command, m.data, slotOk)]]

\* both functions up to the call of rscpGetMsg: rscpSendMsg, then
\* rscpRequestSlotCallback; either may end the call
MasterCall(m) ==
    \E k \in 0..MaxTicks, slotOk \in BOOLEAN, reqOk \in BOOLEAN,
       clobber \in IF TxOverflows(m.data) THEN BOOLEAN ELSE {FALSE} :
        LET who == m.who
            command == m.command
            data == m.data
            replyLength == m.replyLength
            send == MasterSends[m][slotOk]
            slot == <<[cb |-> "rscpRequestSlotCallback",
                       arg |-> RxBufferMaxLength(replyLength), ret |-> reqOk]>>
        IN  \* bytes an earlier transaction left unread are met by every
            \* transaction but the last of a run
            /\ (rx = <<>> \/ calls + 1 < MaxCalls)
            /\ EnterCall(who, k, 0)
            /\ txLog' = IF clobber
                        THEN <<[buf |-> Clobbered(send.tx[1].buf), ok |-> slotOk]>>
                        ELSE send.tx
            /\ nTx' = nTx + 1
            /\ IF send.ret # RSCP_ERR_OK
               THEN /\ pc' = "idle"
                    /\ result' = <<send.ret>>
                    /\ cbLog' = <<>>
                    /\ rx' = rx
                    /\ sent' = <<[command |-> command, data |-> data,
                                  replyLength |-> replyLength, origin |-> "none",
                                  clean |-> rx = <<>>]>>
               ELSE IF ~reqOk
               THEN /\ pc' = "idle"
                    /\ result' = <<RSCP_ERR_REQUEST_FAILED>>
                    /\ cbLog' = slot
                    /\ rx' = rx
                    /\ sent' = <<[command |-> command, data |-> data,
                                  replyLength |-> replyLength, origin |-> "none",
                                  clean |-> rx = <<>>]>>
               ELSE /\ pc' = "rx"
                    /\ result' = <<>>
                    /\ cbLog' = slot
                    /\ \E link \in MasterLinks[m] :
                          /\ rx' = rx \o link.bytes
                          /\ sent' = <<[command |-> command, data |-> data,
                                        replyLength |-> replyLength,
                                        origin |-> link.origin, clean |-> rx = <<>>,
                                        link |-> link]>>
            /\ UNCHANGED <<tail, rdPhase, nValid>>

rscpRequestDataCall ==
    \E q \in QueryInputs : MasterCall(q)

rscpSendActionCall ==
    \E a \in ActionInputs : MasterCall(a)

\* a function that copies the data before it looks at the frame
RequestDataResultCopyFirst(rxCode, f, command, replyLength, junk) ==
    LET chk == MasterCheck(f, command)
    IN  [ret   |-> IF rxCode # RSCP_ERR_OK THEN rxCode ELSE chk,
         wrote |-> rxCode = RSCP_ERR_OK,
         reply |-> CopyReply(f, replyLength, junk)]
\* rscpRequestData after rscpGetMsg has returned rxCode: its return value,
\* whether it wrote to reply, and the bytes it wrote
RequestDataResult(rxCode, f, command, replyLength, junk) ==
    LET chk == MasterCheck(f, command)
    IN  IF rxCode # RSCP_ERR_OK
        THEN [ret |-> rxCode, wrote |-> FALSE, reply |-> <<>>]
        ELSE IF chk # RSCP_ERR_OK
        THEN [ret |-> chk, wrote |-> FALSE, reply |-> <<>>]
        ELSE [ret |-> RSCP_ERR_OK, wrote |-> TRUE,
              reply |-> CopyReply(f, replyLength, junk)]

\* rscpGetMsg has returned into rscpRequestData
rscpRequestDataReturn ==
    /\ pc = "rxret"
    /\ caller = "reqdata"
    /\ \E junk \in {0, 255} :
          LET r == RequestDataResult(rxResult[1], frame, sent[1].command,
                                     sent[1].replyLength, junk)
          IN  /\ result' = <<r.ret>>
              /\ replyOut' = IF r.wrote THEN r.reply ELSE replyOut
    /\ pc' = "idle"
    /\ UNCHANGED <<caller, timeout_ticks, ticks, bufferIndex, rscpRxStatus, frame,
                   rxResult, rx, tail, stalls, sent, polls, waits, byteWaits,
                   gotByte, rdPhase, lastWr, calls, txLog, cbLog, nTx, nValid>>

\* rscpGetMsg has returned into rscpSendAction
rscpSendActionReturn ==
    /\ pc = "rxret"
    /\ caller = "action"
    /\ LET chk == MasterCheck(frame, sent[1].command)
       IN  IF rxResult # <<RSCP_ERR_OK>>
           THEN result' = rxResult
           ELSE IF chk # RSCP_ERR_OK
           THEN result' = <<chk>>
           ELSE \E junk \in {0, 255} :
                   result' = <<ErrorTypeOfByte(DataAt(frame, 0, junk))>>
    /\ pc' = "idle"
    /\ UNCHANGED <<caller, timeout_ticks, ticks, bufferIndex, rscpRxStatus, frame,
                   rxResult, rx, tail, stalls, sent, polls, waits, byteWaits,
                   gotByte, rdPhase, lastWr, calls, txLog, cbLog, nTx, nValid,
                   replyOut>>

NextMaster ==
    \/ rscpRequestDataCall
    \/ rscpSendActionCall
    \/ PollNotReady
    \/ PollReady
    \/ rscpRequestDataReturn
    \/ rscpSendActionReturn

SpecMaster == InitSlave /\ [][NextMaster]_vars

\* the running call keeps executing: it polls the transport again and again
FairSpecRx == SpecRx /\ WF_vars(PollNotReady \/ PollReady)

---------------------------------------------------------------------------
(* Properties of the receiver (SpecRx).                                    *)

\* a public call has returned
Returned == pc = "idle" /\ result # <<>>

\* the first call has returned and the link held one frame as rscpSendMsg
\* sends it (one preamble byte) with a payload of at most n bytes
GotSentFrame(n) ==
    /\ Returned
    /\ calls = 1
    /\ caller = "getmsg"
    /\ sent # <<>>
    /\ sent[1].pre = 1
    /\ sent[1].crcOk
    /\ Len(sent[1].data) <= n

\* the frame decoded is the frame encoded, and its CRC validates
RoundTrip ==
    /\ result = <<RSCP_ERR_OK>>
    /\ frame.command = sent[1].command
    /\ frame.data = sent[1].data
    /\ frame.length = 2 + Len(sent[1].data)
    /\ frame.crc = rscpGetCrcCallback(<<frame.length, frame.command>> \o frame.data,
                                      frame.length)

\* C1: round trip: for every command and every payload of 0 to 26 bytes, the
\* bytes of rscpSendMsg(command, payload), all delivered, make rscpGetMsg
\* return RSCP_ERR_OK with that command, that payload, length 2+n and a CRC
\* equal to the CRC recomputed over frame.length bytes from the length byte.
C1_RoundTrip ==
    (GotSentFrame(SizeofData) /\ result # <<RSCP_ERR_TIMEOUT>>) => RoundTrip

\* C1, up to 25 bytes: what the receiver does deliver
C1_RoundTripBelowCapacity ==
    (GotSentFrame(SizeofData - 1) /\ result # <<RSCP_ERR_TIMEOUT>>) => RoundTrip

C1_RoundTripBelowCapacity_Witness ==
    GotSentFrame(SizeofData - 1) /\ Len(sent[1].data) = SizeofData - 1 /\ RoundTrip

\* C2: overflow boundary: every write to frame.data is at an index in 0..25;
\* with an accepted length byte above 28 the receive never returns RSCP_ERR_OK,
\* and RSCP_ERR_OVERFLOW is returned exactly when 26 data bytes have been
\* written (index 25 last), before a 27th is read or written.
C2_OverflowBoundary ==
    /\ lastWr \in -1..(SizeofData - 1)
    /\ Len(frame.data) <= SizeofData
    /\ (Returned /\ rscpRxStatus >= 1 /\ frame.length > SizeofData + 2)
          => result \in {<<RSCP_ERR_TIMEOUT>>, <<RSCP_ERR_OVERFLOW>>}
    /\ (Returned /\ result = <<RSCP_ERR_OVERFLOW>>)
          => /\ bufferIndex = SizeofData
             /\ Len(frame.data) = SizeofData
             /\ lastWr = SizeofData - 1

C2_OverflowBoundary_Witness ==
    /\ Returned
    /\ result = <<RSCP_ERR_OVERFLOW>>
    /\ frame.length = SizeofData + 3
    /\ lastWr = SizeofData - 1

\* a call has timed out without the transport ever delivering a byte
NeverReadyTimeout == Returned /\ result = <<RSCP_ERR_TIMEOUT>> /\ ~gotByte

\* C3 as stated: with budget k and a transport that never has a byte ready,
\* the receive fails with RSCP_ERR_TIMEOUT after exactly k polls.
C3_TimeoutAfterKPolls == NeverReadyTimeout => polls = timeout_ticks

\* C3, amended: with budget k and a transport that never has a byte ready, the
\* receive fails with RSCP_ERR_TIMEOUT after exactly k + 1 polls of
\* rscpGetRxByteCallback and k calls of rscpRxWaitingCallback.
C3_TimeoutAfterKPlus1Polls ==
    /\ NeverReadyTimeout => (polls = timeout_ticks + 1 /\ waits = timeout_ticks)
    /\ (pc = "rx" /\ ~gotByte) => (polls = waits /\ polls <= timeout_ticks)

C3_TimeoutAfterKPlus1Polls_Witness ==
    NeverReadyTimeout /\ timeout_ticks = MaxTicks /\ polls = MaxTicks + 1

\* C4 as stated: during one call with budget k the waits summed over all
\* bytes of the frame never exceed k.
C4_TotalWaitsWithinBudget == waits <= timeout_ticks

\* C4, amended: the budget k bounds the waits for each single byte, not their
\* sum: while a byte is awaited the waits for it plus the ticks left are k, a
\* timeout comes after k waits for that byte, and every delivered byte
\* restores the full budget.
C4_WaitsPerByteWithinBudget ==
    /\ byteWaits <= timeout_ticks
    /\ pc = "rx" => byteWaits + ticks = timeout_ticks
    /\ (Returned /\ result = <<RSCP_ERR_TIMEOUT>>) => byteWaits = timeout_ticks

C4_WaitsPerByteWithinBudget_Witness ==
    /\ pc = "rx"
    /\ gotByte
    /\ byteWaits = timeout_ticks
    /\ waits > timeout_ticks

\* C5: every receive terminates, whatever the transport delivers: a running
\* rscpGetMsg eventually returns.
C5_ReceiveTerminates == (pc = "rx") ~> (pc = "idle")

---------------------------------------------------------------------------
(* Properties of the slave (SpecSlave).                                    *)

\* a call of rscpHandle has returned
HandleReturned == pc = "idle" /\ caller = "handle" /\ result # <<>>

\* the CRC recomputed over frame.length bytes from the length byte
RecomputedCrc == rscpGetCrcCallback(<<frame.length, frame.command>> \o frame.data,
                                    frame.length)

\* rscpHandle has returned after a receive that ended RSCP_ERR_OK
HandledBadCrc == HandleReturned /\ rxResult = <<RSCP_ERR_OK>> /\ RecomputedCrc # frame.crc
HandledValid == HandleReturned /\ rxResult = <<RSCP_ERR_OK>> /\ RecomputedCrc = frame.crc

\* the data bytes of a transmitted buffer: after preamble, length and command,
\* before the two CRC bytes
TxPayload(buf) == SubSeq(buf, 4, Len(buf) - 2)

\* C6: slave silence on bad input: a receive that ends in Timeout or Overflow
\* makes rscpHandle return that code, a CRC mismatch makes it return
\* RSCP_ERR_MALFORMED, and in all three cases no device callback and no
\* rscpSendSlotCallback is invoked.
C6_SilentOnBadInput ==
    /\ (HandleReturned /\ rxResult \in {<<RSCP_ERR_TIMEOUT>>, <<RSCP_ERR_OVERFLOW>>})
          => (result = rxResult /\ txLog = <<>> /\ cbLog = <<>>)
    /\ HandledBadCrc
          => (result = <<RSCP_ERR_MALFORMED>> /\ txLog = <<>> /\ cbLog = <<>>)

C6_SilentOnBadInput_Witness ==
    /\ HandledBadCrc
    /\ result = <<RSCP_ERR_MALFORMED>>
    /\ frame.command \in Catalog
    /\ nTx = 0

\* C7: exactly one reply per dispatched request: a call whose frame passes the
\* CRC check invokes rscpSendSlotCallback exactly once, with the received
\* command byte; any other call invokes it not at all; so over all calls the
\* invocations equal the CRC-valid frames.
C7_OneReplyPerValidFrame ==
    /\ nTx = nValid
    /\ HandledValid => (Len(txLog) = 1 /\ txLog[1].buf[3] = frame.command)
    /\ (HandleReturned /\ ~HandledValid) => txLog = <<>>

C7_OneReplyPerValidFrame_Witness ==
    /\ HandleReturned
    /\ calls = 2
    /\ nTx = 1
    /\ nValid = 1
    /\ txLog = <<>>

\* C8: unknown command: a CRC-valid frame whose command is outside the catalog
\* invokes no device callback and is answered by one frame with length 3, the
\* received command byte and the single payload byte RSCP_ERR_NOT_SUPPORTED
\* as one byte (252).
C8_UnknownCommand ==
    (HandledValid /\ frame.command \notin Catalog)
       => /\ cbLog = <<>>
          /\ Len(txLog) = 1
          /\ Len(txLog[1].buf) = 6
          /\ txLog[1].buf[1] = RSCP_PREAMBLE_BYTE
          /\ txLog[1].buf[2] = 3
          /\ txLog[1].buf[3] = frame.command
          /\ txLog[1].buf[4] = 256 + RSCP_ERR_NOT_SUPPORTED

C8_UnknownCommand_Witness ==
    /\ HandledValid
    /\ frame.command = RSCP_PREAMBLE_BYTE
    /\ txLog # <<>>
    /\ TxPayload(txLog[1].buf) = <<252>>

\* the device callback of each set command
SetCallbackOf(command) ==
    CASE command = RSCP_CMD_SET_SHUTTER_ACTION -> "rscpSetShutterActionCallback"
      [] command = RSCP_CMD_SET_SHUTTER_POSITION -> "rscpSetShutterPositionCallback"
      [] command = RSCP_CMD_SET_SWITCH_RELAY -> "rscpSetSwitchRelayCallback"
      [] command = RSCP_CMD_SET_BUZZER_ACTION -> "rscpSetBuzzerActionCallback"

\* C9: set-style dispatch: for each set command rscpHandle invokes exactly the
\* matching device callback, once, on the received payload, and then transmits
\* one frame with the received command and exactly one payload byte, the
\* outcome code the callback returned (as one byte).
C9_SetDispatch ==
    (HandledValid /\ frame.command \in SetCommands)
       => /\ Len(cbLog) = 1
          /\ cbLog[1].cb = SetCallbackOf(frame.command)
          /\ cbLog[1].arg = frame.data
          /\ Len(txLog) = 1
          /\ Len(txLog[1].buf) = 6
          /\ txLog[1].buf[2] = 3
          /\ txLog[1].buf[3] = frame.command
          /\ txLog[1].buf[4] = cbLog[1].ret % 256

C9_SetDispatch_Witness ==
    /\ HandledValid
    /\ frame.command = RSCP_CMD_SET_BUZZER_ACTION
    /\ frame.data = <<1, 2>>
    /\ cbLog # <<>>
    /\ cbLog[1].ret = RSCP_ERR_TASK_BUFFER_FULL
    /\ txLog # <<>>
    /\ TxPayload(txLog[1].buf) = <<249>>

\* the device callback of each get command that has one
GetCallbackOf(command) ==
    CASE command = RSCP_CMD_GET_SHUTTER_POSITION -> "rscpGetShutterPositionCallback"
      [] command = RSCP_CMD_GET_SWITCH_RELAY -> "rscpGetSwitchRelayCallback"
      [] command = RSCP_CMD_GET_SWITCH_BUTTON -> "rscpGetSwitchButtonCallback"

\* the size of each get command's reply record
ReplySizeOf(command) ==
    CASE command = RSCP_CMD_CPU_QUERY -> 8
      [] command = RSCP_CMD_GET_SHUTTER_POSITION -> 2
      [] command = RSCP_CMD_GET_SWITCH_RELAY -> 1
      [] command = RSCP_CMD_GET_SWITCH_BUTTON -> 1

\* C10 as stated: for each of the four get commands the reply payload is the
\* one a device callback filled.
C10_QueryDispatchByCallback ==
    (HandledValid /\ frame.command \in GetCommands)
       => /\ Len(txLog) = 1
          /\ txLog[1].buf[3] = frame.command
          /\ Len(cbLog) = 1
          /\ TxPayload(txLog[1].buf) = cbLog[1].out
          /\ result = IF txLog[1].ok THEN <<RSCP_ERR_OK>> ELSE <<RSCP_ERR_TX_FAILED>>

\* C10, amended: query-style dispatch: for each get command rscpHandle
\* transmits one reply frame with the received command whose payload is the
\* reply record, not an outcome code, and returns what the transmit step
\* returned, RSCP_ERR_OK or RSCP_ERR_TX_FAILED; for GET_SHUTTER_POSITION,
\* GET_SWITCH_RELAY and GET_SWITCH_BUTTON the record is the one the matching
\* device callback filled, for CPU_QUERY it is the fixed record built by
\* rscpGetCPUQuery itself, with no device callback invoked.
C10_QueryDispatch ==
    (HandledValid /\ frame.command \in GetCommands)
       => /\ Len(txLog) = 1
          /\ txLog[1].buf[1] = RSCP_PREAMBLE_BYTE
          /\ txLog[1].buf[3] = frame.command
          /\ txLog[1].buf[2] = 2 + ReplySizeOf(frame.command)
          /\ Len(txLog[1].buf) = 5 + ReplySizeOf(frame.command)
          /\ IF frame.command = RSCP_CMD_CPU_QUERY
             THEN /\ cbLog = <<>>
                  /\ TxPayload(txLog[1].buf) = <<0, 0, 1, 1, 1, 1, 30, 0>>
             ELSE /\ Len(cbLog) = 1
                  /\ cbLog[1].cb = GetCallbackOf(frame.command)
                  /\ TxPayload(txLog[1].buf) = cbLog[1].out
          /\ result = IF txLog[1].ok THEN <<RSCP_ERR_OK>> ELSE <<RSCP_ERR_TX_FAILED>>

C10_QueryDispatch_Witness ==
    /\ HandledValid
    /\ frame.command = RSCP_CMD_GET_SWITCH_BUTTON
    /\ result = <<RSCP_ERR_TX_FAILED>>
    /\ cbLog # <<>>
    /\ cbLog[1].out = <<2>>
    /\ txLog # <<>>
    /\ TxPayload(txLog[1].buf) = <<2>>

---------------------------------------------------------------------------
(* Properties of the master (SpecMaster) and of damaged frames.            *)

\* a call of rscpRequestData or rscpSendAction has returned
MasterReturned == pc = "idle" /\ caller \in {"reqdata", "action"} /\ result # <<>>

\* C11: mismatched reply: in rscpRequestData and rscpSendAction a completely
\* received reply yields RSCP_ERR_INVALID_ANSWER if and only if its CRC
\* validates and its command differs from the request's; a reply whose CRC
\* does not validate yields RSCP_ERR_MALFORMED whatever its command.
C11_MismatchedReply ==
    (MasterReturned /\ rxResult = <<RSCP_ERR_OK>>)
       => /\ result = <<RSCP_ERR_INVALID_ANSWER>>
                <=> (RecomputedCrc = frame.crc /\ frame.command # sent[1].command)
          /\ RecomputedCrc # frame.crc => result = <<RSCP_ERR_MALFORMED>>

C11_MismatchedReply_Witness ==
    /\ MasterReturned
    /\ caller = "action"
    /\ sent[1].command = RSCP_CMD_SET_SWITCH_RELAY
    /\ sent[1].data = <<2>>
    /\ rxResult = <<RSCP_ERR_OK>>
    /\ RecomputedCrc = frame.crc
    /\ frame.command = RSCP_CMD_SET_SHUTTER_ACTION
    /\ result = <<RSCP_ERR_INVALID_ANSWER>>

\* rscpHandle has returned from a request that reached it, on a link empty
\* before it, with one bit of its length, data or CRC bytes inverted
FlippedHandled ==
    /\ HandleReturned
    /\ sent # <<>>
    /\ "pos" \in DOMAIN sent[1]

\* the length byte as it arrives when the inverted bit is in it
FlippedLength == FlipBit(2 + Len(sent[1].data), sent[1].bit)

ActionAnswered ==
    /\ MasterReturned
    /\ caller = "action"
    /\ sent[1].origin = "slave"
    /\ sent[1].clean
    /\ sent[1].link.valid
    /\ sent[1].link.bytes # <<>>
    /\ rxResult = <<RSCP_ERR_OK>>

\* C13: propagated status end to end: the value rscpSendAction returns equals
\* the outcome code produced on the slave (the device callback's return value,
\* or RSCP_ERR_NOT_SUPPORTED for an unknown command), negative codes included.
C13_PropagatedStatus == ActionAnswered => result = <<sent[1].link.err>>

\* a master call has handed a payload to rscpSendMsg whose frame is longer
\* than txBuffer
TxTooLong ==
    /\ caller \in {"reqdata", "action"}
    /\ sent # <<>>
    /\ TxOverflows(sent[1].data)

\* C14: encode capacity check: when the encoded frame would exceed
\* RSCP_MAX_TX_BUFFER_SIZE, rscpSendMsg returns an error (so the master call
\* returns it at once), writes no byte at a buffer index >= 64 and does not
\* invoke rscpSendSlotCallback.
C14_EncodeCapacityCheck ==
    TxTooLong
       => /\ pc = "idle"
          /\ result \notin {<<>>, <<RSCP_ERR_OK>>}
          /\ rxResult = <<>>
          /\ \A i \in 1..Len(txLog) : Len(txLog[i].buf) <= RSCP_MAX_TX_BUFFER_SIZE
          /\ txLog = <<>>

\* a master call has handed to rscpSendMsg a payload whose frame fits txBuffer
TxFits ==
    /\ caller \in {"reqdata", "action"}
    /\ sent # <<>>
    /\ ~TxOverflows(sent[1].data)

\* C15: wire layout of encode: for command and payload of n bytes that fit,
\* the one byte sequence handed to rscpSendSlotCallback is 0xAA, 2+n, command,
\* the payload in order, crc_hi, crc_lo, n+5 bytes in all, the CRC being that
\* of the 2+n bytes from the length byte to the last payload byte.
C15_WireLayout ==
    TxFits
       => /\ Len(txLog) = 1
          /\ LET buf == txLog[1].buf
                 n   == Len(sent[1].data)
                 crc == rscpGetCrcCallback(SubSeq(buf, 2, n + 3), n + 2)
             IN  /\ Len(buf) = n + 5
                 /\ buf[1] = RSCP_PREAMBLE_BYTE
                 /\ buf[2] = 2 + n
                 /\ buf[3] = sent[1].command
                 /\ SubSeq(buf, 4, n + 3) = sent[1].data
                 /\ buf[n + 4] = crc \div 256
                 /\ buf[n + 5] = crc % 256

C15_WireLayout_Witness ==
    /\ TxFits
    /\ caller = "action"
    /\ txLog # <<>>
    /\ Len(txLog[1].buf) = RSCP_MAX_TX_BUFFER_SIZE
    /\ txLog[1].buf[2] = RSCP_MAX_TX_BUFFER_SIZE - 3

\* C16: preamble skip: N bytes of 0xAA followed by a valid frame make
\* rscpGetMsg return the same result code and the same length, command, data
\* and crc as the frame without leading 0xAA bytes, all bytes delivered.
C16_PreambleSkip ==
    (Returned /\ caller = "getmsg" /\ calls = 1 /\ sent # <<>>
        /\ result # <<RSCP_ERR_TIMEOUT>>)
       => LET bare == rscpGetMsg(Wire([sent[1] EXCEPT !.pre = 0]))
          IN  /\ result = <<bare.code>>
              /\ frame = bare.frame

C16_PreambleSkip_Witness ==
    /\ Returned
    /\ caller = "getmsg"
    /\ calls = 1
    /\ sent # <<>>
    /\ sent[1].pre = 2
    /\ sent[1].command = RSCP_PREAMBLE_BYTE
    /\ result = <<RSCP_ERR_OK>>
    /\ frame.command = RSCP_PREAMBLE_BYTE
    /\ frame.data = <<RSCP_PREAMBLE_BYTE, RSCP_PREAMBLE_BYTE>>

\* rscpRequestData has handed its request to rscpSendSlotCallback
RequestSent == caller = "reqdata" /\ txLog # <<>>

\* C17 as stated: the request of rscpRequestData carries no data byte: its
\* length byte is 2 and the bytes are 0xAA, 2, command, crc_hi, crc_lo.
C17_ZeroPayloadRequest ==
    RequestSent
       => /\ Len(txLog[1].buf) = 5
          /\ txLog[1].buf[1] = RSCP_PREAMBLE_BYTE
          /\ txLog[1].buf[2] = 2
          /\ txLog[1].buf[3] = sent[1].command

\* C17, amended: the request of rscpRequestData carries one data byte 0x00:
\* its length byte is 3 and the bytes are 0xAA, 3, command, 0x00, crc_hi,
\* crc_lo, the CRC covering 3, command, 0x00.
C17_OneByteRequest ==
    RequestSent
       => LET crc == rscpGetCrcCallback(<<3, sent[1].command, 0>>, 3)
          IN  txLog[1].buf = <<RSCP_PREAMBLE_BYTE, 3, sent[1].command, 0,
                               crc \div 256, crc % 256>>

C17_OneByteRequest_Witness ==
    /\ RequestSent
    /\ sent[1].command = RSCP_CMD_CPU_QUERY
    /\ Len(txLog[1].buf) = 6
    /\ txLog[1].buf[2] = 3
    /\ txLog[1].buf[4] = 0

\* C18: decoded-frame length invariant: every frame for which rscpGetMsg
\* returns RSCP_ERR_OK has length >= 2 and exactly length - 2 data bytes
\* stored; a length byte of 0 or 1 never yields a decoded frame.
C18_LengthInvariant ==
    (Returned /\ caller = "getmsg" /\ result = <<RSCP_ERR_OK>>)
       => /\ frame.length >= 2
          /\ Len(frame.data) = frame.length - 2

\* rscpRequestData(RSCP_CMD_CPU_QUERY, reply, n, T) has returned after the
\* slave, on a link empty before, answered the request
CpuQueryAnswered ==
    /\ MasterReturned
    /\ caller = "reqdata"
    /\ sent[1].command = RSCP_CMD_CPU_QUERY
    /\ sent[1].origin = "slave"
    /\ sent[1].clean
    /\ sent[1].link.bytes # <<>>
    /\ rxResult = <<RSCP_ERR_OK>>

\* C19 as stated: with replyLength 7 the slave answers flags 0, crcType 1,
\* protocolversion 1, cpuType 1, swversion 1, packetMaxLen 30, the call
\* returns RSCP_ERR_OK and the 7 bytes copied are the slave's reply payload,
\* byte for byte.
C19_CpuQuerySevenBytes ==
    (CpuQueryAnswered /\ sent[1].replyLength = 7)
       => /\ result = <<RSCP_ERR_OK>>
          /\ Len(replyOut) = 7
          /\ replyOut = TxPayload(sent[1].link.bytes)

\* C19, amended: the slave answers with the 8-byte record flags 0 (2 bytes),
\* crcType 1, protocolversion 1, cpuType 1, swversion 1, packetMaxLen 30
\* (2 bytes, low byte first) in a frame of 13 bytes; the call returns
\* RSCP_ERR_OK and the replyLength bytes copied are the leading replyLength
\* bytes of that record: with 7, packetMaxLen's high byte is left out and the
\* receive slot asked of rscpRequestSlotCallback (12) is one byte short of the
\* frame; with 8 the copy is the whole record.
C19_CpuQueryLeadingBytes ==
    CpuQueryAnswered
       => /\ result = <<RSCP_ERR_OK>>
          /\ Len(sent[1].link.bytes) = 13
          /\ TxPayload(sent[1].link.bytes) = <<0, 0, 1, 1, 1, 1, 30, 0>>
          /\ Len(replyOut) = sent[1].replyLength
          /\ replyOut = SubSeq(TxPayload(sent[1].link.bytes), 1, sent[1].replyLength)
          /\ cbLog[1].arg = sent[1].replyLength + 5

C19_CpuQueryLeadingBytes_Witness ==
    /\ CpuQueryAnswered
    /\ sent[1].replyLength = 7
    /\ result = <<RSCP_ERR_OK>>
    /\ replyOut = <<0, 0, 1, 1, 1, 1, 30>>
    /\ cbLog[1].arg = 12

C22_MasterStepOrder ==
    caller \in {"reqdata", "action"}
       => /\ Len(txLog) <= 1
          /\ Len(cbLog) <= 1
          /\ nTx <= calls
          /\ cbLog # <<>> => (txLog # <<>> /\ txLog[1].ok)
          /\ (pc # "idle" \/ rxResult # <<>> \/ polls > 0 \/ gotByte)
                => (cbLog # <<>> /\ cbLog[1].ret)
          /\ (MasterReturned /\ txLog # <<>> /\ ~txLog[1].ok)
                => /\ result = <<RSCP_ERR_TX_FAILED>>
                   /\ cbLog = <<>>
                   /\ polls = 0 /\ ~gotByte /\ rxResult = <<>>
          /\ (MasterReturned /\ cbLog # <<>> /\ ~cbLog[1].ret)
                => /\ result = <<RSCP_ERR_REQUEST_FAILED>>
                   /\ polls = 0 /\ ~gotByte /\ rxResult = <<>>

C22_MasterStepOrder_Witness ==
    /\ MasterReturned
    /\ caller = "reqdata"
    /\ txLog # <<>>
    /\ txLog[1].ok
    /\ cbLog # <<>>
    /\ ~cbLog[1].ret
    /\ result = <<RSCP_ERR_REQUEST_FAILED>>
    /\ polls = 0

\* the first call has returned when the transport had delivered only a
\* proper prefix of the bytes of a valid frame of at most n data bytes: what
\* was not delivered is still on the link
GotPrefix(n) ==
    /\ Returned
    /\ calls = 1
    /\ caller = "getmsg"
    /\ sent # <<>>
    /\ sent[1].crcOk
    /\ Len(sent[1].data) <= n
    /\ rx # <<>>

\* C23: timeout in any state: for every valid frame (0 to 26 data bytes) and
\* every proper prefix of its wire bytes, a transport that delivers only that
\* prefix and then has no byte ready makes rscpGetMsg return
\* RSCP_ERR_TIMEOUT, never RSCP_ERR_OK.
C23_TimeoutInAnyState ==
    GotPrefix(SizeofData) => result = <<RSCP_ERR_TIMEOUT>>

---------------------------------------------------------------------------
(* Properties of frames sent back to back (SpecPairs) and of the two       *)
(* versions of the receiver.                                               *)

\* the frame just decoded is the frame fr as it was encoded
Decoded(fr) ==
    /\ result = <<RSCP_ERR_OK>>
    /\ frame.length = 2 + Len(fr.data)
    /\ frame.command = fr.command
    /\ frame.data = fr.data
    /\ frame.crc = rscpGetCrcCallback(<<frame.length, frame.command>> \o frame.data,
                                      frame.length)

\* C24: boundary length == 2: after a length byte of 2 the next byte is
\* taken as the command and the receiver goes directly to the CRC states: no
\* byte is stored in the data buffer, and the frame completes with
\* RSCP_ERR_OK after exactly two more bytes, the bytes of a frame sent right
\* behind it being left on the link.
C24_BoundaryLengthTwo ==
    /\ (caller = "getmsg" /\ rscpRxStatus >= 1 /\ frame.length = 2)
          => /\ rscpRxStatus \in {1, 3, 4}
             /\ frame.data = <<>>
             /\ bufferIndex = 0
             /\ lastWr = -1
    /\ (Returned /\ caller = "getmsg" /\ calls = 1 /\ sent[1].data = <<>>)
          => /\ Decoded(sent[1])
             /\ rx = Wire(sent[2])

C24_BoundaryLengthTwo_Witness ==
    /\ Returned
    /\ caller = "getmsg"
    /\ calls = 1
    /\ sent[1].data = <<>>
    /\ frame.length = 2
    /\ frame.command = RSCP_CMD_CPU_QUERY
    /\ frame.data = <<>>
    /\ result = <<RSCP_ERR_OK>>
    /\ rx = Wire(sent[2])

\* C25: draft equivalence away from the boundary: on every stream whose
\* length byte is at least 3 and for every tick budget, the rscpGetMsg of
\* src/rscpProtocol.c and the older one of src/unnamed/part_000 take every
\* byte the same way (same frame, state and index after it, same return), so
\* they read the same number of bytes and return the same code and the same
\* length, command, data and crc.
C25_DraftEquivalence ==
    /\ (pc = "rx" /\ ByteDue /\ (rscpRxStatus = 0 \/ frame.length >= 3))
          => RxSwitchDraft(frame, rscpRxStatus, bufferIndex, NextByte)
               = RxSwitch(frame, rscpRxStatus, bufferIndex, NextByte)
    /\ (Returned /\ caller = "getmsg" /\ calls = 1 /\ sent # <<>>
          /\ sent[1].data # <<>> /\ result # <<RSCP_ERR_TIMEOUT>>)
          => LET draft == rscpGetMsgDraft(Wire(sent[1]))
             IN  /\ result = <<draft.code>>
                 /\ frame = draft.frame
                 /\ rx = draft.rest

C25_DraftEquivalence_Witness ==
    /\ Returned
    /\ caller = "getmsg"
    /\ calls = 1
    /\ sent # <<>>
    /\ frame.length = 3
    /\ result = <<RSCP_ERR_OK>>
    /\ frame = rscpGetMsgDraft(Wire(sent[1])).frame
    /\ rx = <<>>

\* the transport delivers the byte 0xAA to a receive that has accepted its
\* length byte
PreambleByteTaken ==
    /\ pc = "rx"
    /\ rscpRxStatus >= 1
    /\ ByteDue
    /\ NextByte = RSCP_PREAMBLE_BYTE
    /\ rdPhase' # rdPhase

\* C26: no preamble filtering past WaitLength: once the length byte has been
\* accepted, a received 0xAA is stored unchanged as the command, as the next
\* data byte, or as the CRC byte awaited, and the receiver moves on; it is
\* never discarded.
C26_NoPreambleFiltering ==
    [][PreambleByteTaken
         => CASE rscpRxStatus = 1 ->
                   /\ frame'.command = RSCP_PREAMBLE_BYTE
                   /\ rscpRxStatus' \in {2, 3}
              [] rscpRxStatus = 2 ->
                   /\ frame'.data = Append(frame.data, RSCP_PREAMBLE_BYTE)
                   /\ bufferIndex' = bufferIndex + 1
              [] rscpRxStatus = 3 ->
                   /\ frame'.crc = RSCP_PREAMBLE_BYTE * 256
                   /\ rscpRxStatus' = 4
              [] rscpRxStatus = 4 ->
                   /\ frame'.crc \div 256 = frame.crc \div 256
                   /\ frame'.crc % 256 = RSCP_PREAMBLE_BYTE
                   /\ rxResult' = <<RSCP_ERR_OK>>]_vars

C26_NoPreambleFiltering_Witness ==
    /\ Returned
    /\ caller = "getmsg"
    /\ sent = <<>>
    /\ result = <<RSCP_ERR_OK>>
    /\ frame.length = 3
    /\ frame.data = <<RSCP_PREAMBLE_BYTE>>
    /\ frame.crc = RSCP_PREAMBLE_BYTE * 256 + RSCP_PREAMBLE_BYTE

---------------------------------------------------------------------------
(* Properties of what the master hands back to its caller (SpecMaster).    *)

\* C27: returned payload was actually received: when rscpRequestData returns
\* RSCP_ERR_OK, each of the replyLength bytes copied to the caller is a data
\* byte of the reply frame received in this transaction (which carried at
\* least replyLength data bytes, replyLength <= 26); when rscpSendAction
\* returns a status taken from frame.data[0], the reply frame carried at
\* least one data byte.
C27_PayloadWasReceived ==
    /\ (MasterReturned /\ caller = "reqdata" /\ result = <<RSCP_ERR_OK>>)
          => /\ sent[1].replyLength <= Len(frame.data)
             /\ sent[1].replyLength <= SizeofData
             /\ replyOut = SubSeq(frame.data, 1, sent[1].replyLength)
    /\ (MasterReturned /\ caller = "action" /\ rxResult = <<RSCP_ERR_OK>>
          /\ MasterCheck(frame, sent[1].command) = RSCP_ERR_OK)
          => Len(frame.data) >= 1

\* C28: caller's reply buffer untouched on failure: when rscpRequestData
\* returns anything but RSCP_ERR_OK (TX_FAILED, REQUEST_FAILED, TIMEOUT,
\* OVERFLOW, MALFORMED, INVALID_ANSWER), it has written no byte of reply.
C28_ReplyUntouchedOnFailure ==
    /\ (caller = "reqdata" /\ pc # "idle") => replyOut = <<>>
    /\ (MasterReturned /\ caller = "reqdata" /\ result # <<RSCP_ERR_OK>>)
          => /\ replyOut = <<>>
             /\ result[1] \in {RSCP_ERR_TX_FAILED, RSCP_ERR_REQUEST_FAILED,
                               RSCP_ERR_TIMEOUT, RSCP_ERR_OVERFLOW,
                               RSCP_ERR_MALFORMED, RSCP_ERR_INVALID_ANSWER}

C28_ReplyUntouchedOnFailure_Witness ==
    /\ MasterReturned
    /\ caller = "reqdata"
    /\ rxResult = <<RSCP_ERR_OK>>
    /\ Len(frame.data) >= sent[1].replyLength
    /\ result = <<RSCP_ERR_INVALID_ANSWER>>
    /\ replyOut = <<>>

\* C29: back-to-back frames: a successful rscpGetMsg reads the leading 0xAA
\* bytes and the frame's length + 2 further bytes and nothing behind the CRC
\* low byte, so of two valid frames A and B (0 to 26 data bytes) sent back
\* to back, two consecutive calls return A and then B.
C29_BackToBack ==
    (Returned /\ caller = "getmsg" /\ Len(sent) = 2)
       => /\ calls = 1 => (Decoded(sent[1]) /\ rx = Wire(sent[2]))
          /\ calls = 2 => (Decoded(sent[2]) /\ rx = <<>>)

====
